---- MODULE Spec2Model ----
(***************************************************************************)
(* Model of lightautoml/addons/utilization/utilization.py:                 *)
(* TimeUtilization (time-budgeted multistart scheduler, random-state       *)
(* perturbation, two-level blending) and the MLPipeForAutoMLWrapper /      *)
(* MLAlgoForAutoMLWrapper adapters.                                        *)
(*                                                                         *)
(* Python dicts are functions with a string domain.  A dict value is a     *)
(* tagged node: [int |-> v] for a number, [dict |-> f] for a nested dict,  *)
(* so that `type(x) is dict` is a test on the tag.  Python lists are       *)
(* sequences; n_cfg keeps the 0-based value of the code and indexes the    *)
(* 1-based sequences as n_cfg + 1.                                         *)
(***************************************************************************)
EXTENDS Integers, Sequences, FiniteSets, TLC

\* ------------------------------------------------------------------ bounds
MaxCfgs == 3
MaxRunsPerConfig == 5
MaxTotalRuns == 6
MaxPasses == 3
MaxCalls == 2
MaxPredicts == 2
MaxDur == 120

\* default of the constructor argument random_state
DefaultRandomState == 42

\* ------------------------------------------------------------ nested dicts
IntNode(v) == [int |-> v]
DictNode(f) == [dict |-> f]
IsDict(n) == "dict" \in DOMAIN n
EmptyDict == [k \in {} |-> IntNode(0)]
None == "None"
\* an optional constructor argument: absent (None) or given
NoneArg == [none |-> TRUE]
Some(x) == [some |-> x]
IsNone(a) == "none" \in DOMAIN a

\* {**a, **b}
DictMerge(a, b) ==
    [k \in (DOMAIN a) \cup (DOMAIN b) |-> IF k \in DOMAIN b THEN b[k] ELSE a[k]]

RECURSIVE Sum(_)
Sum(s) == IF Len(s) = 0 THEN 0 ELSE s[1] + Sum(Tail(s))

RECURSIVE _search_for_key(_, _, _)
_search_for_key_KeepsEmpty(config, key, value) ==
    LET sub == {k \in DOMAIN config : IsDict(config[k])}
        top == IF key \in DOMAIN config THEN {key} ELSE {}
    IN  [k \in top \cup sub |->
            IF k \in sub THEN DictNode(_search_for_key(config[k].dict, key, value))
                         ELSE IntNode(value)]
_search_for_key(config, key, value) ==
    LET sub == {k \in DOMAIN config :
                    /\ IsDict(config[k])
                    /\ DOMAIN _search_for_key(config[k].dict, key, value) # {}}
        top == IF key \in DOMAIN config THEN {key} ELSE {}
    IN  [k \in top \cup sub |->
            IF k \in sub THEN DictNode(_search_for_key(config[k].dict, key, value))
                         ELSE IntNode(value)]

_search_for_states(factory_config, random_state) ==
    _search_for_key(factory_config, "random_state", random_state)

RECURSIVE _get_upd_states(_, _)
_get_upd_states_Flat(random_state_keys, upd_value) ==
    [k \in DOMAIN random_state_keys |->
        IF IsDict(random_state_keys[k])
        THEN random_state_keys[k]
        ELSE IntNode(random_state_keys[k].int + upd_value)]
_get_upd_states_NestedDefault(random_state_keys, upd_value) ==
    [k \in DOMAIN random_state_keys |->
        IF IsDict(random_state_keys[k])
        THEN DictNode(_get_upd_states(random_state_keys[k].dict, 0))
        ELSE IntNode(random_state_keys[k].int + upd_value)]
_get_upd_states(random_state_keys, upd_value) ==
    [k \in DOMAIN random_state_keys |->
        IF IsDict(random_state_keys[k])
        THEN DictNode(_get_upd_states(random_state_keys[k].dict, upd_value))
        ELSE IntNode(random_state_keys[k].int + upd_value)]

\* ------------------------------------------------------- wrapper adapters
from_automls(automl) == [models |-> <<automl>>]
from_automl(automl) == [ml_algos |-> <<from_automls(automl)>>]
from_blended(automls, blender) ==
    [ml_algos |-> <<from_automls(automls)>>, blender |-> blender]
\* x.ml_algos[0].models[0]
Unwrap(x) == x.ml_algos[1].models[1]

\* ------------------------------------------------------------- collaborators
\* PipelineTimer: time_left = timeout - time_spent
TimeLeft(tmo, spent) == tmo - spent

\* Blender.fit_predict(predictions, pipes): the sets of retained positions a
\* strategy may choose (an empty input is an error of the strategy).
Retained(blender, n) ==
    IF blender.name = "BestModelSelector" THEN {<<i>> : i \in 1..n}
    ELSE {[i \in 1..n |-> i]}
Pick(seq, sel) == [j \in 1..Len(sel) |-> seq[sel[j]]]
BlendPred(blender, preds) == [kind |-> "blend", by |-> blender.name, of |-> preds]
Fitted(blender, sel, n) == [name |-> blender.name, fitted_on |-> n, keep |-> sel]
NewBlender(name) == [name |-> name, fitted_on |-> 0, keep |-> <<>>]
\* Blender.predict(predictions): the predictions of the retained pipelines
BlenderPredict(blender, preds) == BlendPred(blender, preds)

\* ---------------------------------------------------------------- inputs
CfgPath == <<"cfg0.yml", "cfg1.yml", "cfg2.yml", "cfg3.yml", "cfg4.yml">>
ConfigListArgs == {NoneArg} \cup {Some(SubSeq(CfgPath, 1, n)) : n \in 0..MaxCfgs}
Durations == {10, 40, MaxDur}
HugeTimeout == (MaxTotalRuns + 2) * MaxDur
Timeouts == {0, 100, HugeTimeout}
BlenderNames == {"BestModelSelector", "MeanBlender"}

CfgNoSeed == "general_params" :> DictNode("use_algos" :> IntNode(1))
CfgDepth2 ==
    ("reader_params" :> DictNode(("random_state" :> IntNode(7)) @@ ("cv" :> IntNode(5))))
    @@ ("general_params" :> DictNode("use_algos" :> IntNode(1)))
CfgDepth3 ==
    ("gbm_params" :> DictNode(("default_params" :>
          DictNode(("random_state" :> IntNode(1)) @@ ("lr" :> IntNode(3))))
       @@ ("freeze" :> IntNode(0))))
    @@ ("reader_params" :> DictNode("random_state" :> IntNode(7)))
FactoryConfigs == {CfgNoSeed, CfgDepth2, CfgDepth3}

\* the example of the constructor's docstring
DocSeedMap ==
    ("reader_params" :> DictNode("random_state" :> IntNode(42)))
    @@ ("gbm_params" :> DictNode("default_params" :> DictNode("seed" :> IntNode(42))))
TopSeedMap == "seed" :> IntNode(42)
ExampleSeedMap == "a" :> DictNode("seed" :> IntNode(42))
SeedMapArgs == {NoneArg, Some(DocSeedMap), Some(TopSeedMap), Some(ExampleSeedMap)}

KwNone == EmptyDict
KwReader == "reader_params" :> DictNode("cv" :> IntNode(3))
KwGbm ==
    "gbm_params" :> DictNode(("default_params" :> DictNode("lr" :> IntNode(1)))
                             @@ ("freeze" :> IntNode(1)))
KwScalar == "reader_params" :> IntNode(9)
KwOther == "debug" :> IntNode(1)
KwargsArgs == {KwNone, KwReader, KwGbm, KwScalar, KwOther}

\* ----------------------------------------------------------------- state
VARIABLES
    configs_list, max_runs_per_config, timeout, drop_last,
    factory_config, random_state_keys, kwargs, inner_blend, outer_blend,
    outer_pipes, outer_pipes_set,
    pc, it, time_spent, history, amls, aml_preds, n_ms, n_cfg,
    upd_state_val, flg_continute, inner_pipes, inner_preds,
    factory_calls, inner_calls, outer_calls, predict_calls, calls_left

fixed == <<configs_list, max_runs_per_config, timeout, drop_last,
           factory_config, inner_blend>>
ctor == <<fixed, random_state_keys, kwargs>>
locals == <<it, time_spent, history, amls, aml_preds, n_ms, n_cfg,
            upd_state_val, flg_continute, inner_pipes, inner_preds>>
logs == <<factory_calls, inner_calls, outer_calls, predict_calls>>
fitstate == <<outer_blend, outer_pipes, outer_pipes_set>>
vars == <<ctor, fitstate, pc, locals, logs, calls_left>>

\* TimeUtilization.__init__
InitWith(cfgArgs, maxRuns, timeouts, dropLasts, factoryCfgs, seedArgs, kwArgs, innerNames, outerNames, calls) ==
    /\ \E a \in cfgArgs : configs_list = IF IsNone(a) THEN <<None>> ELSE a.some
    /\ max_runs_per_config \in maxRuns
    /\ max_runs_per_config * Len(configs_list) <= MaxTotalRuns
    /\ timeout \in timeouts
    /\ drop_last \in dropLasts
    /\ factory_config \in factoryCfgs
    /\ \E a \in seedArgs, c \in {factory_config} :
          random_state_keys =
              IF IsNone(a) THEN _search_for_states(c, DefaultRandomState)
                           ELSE a.some
    /\ kwargs \in kwArgs
    /\ \E b \in innerNames : inner_blend = NewBlender(b)
    /\ \E b \in outerNames : outer_blend = NewBlender(b)
    /\ outer_pipes = <<>> /\ outer_pipes_set = FALSE
    /\ pc = "idle"
    /\ it = 0 /\ time_spent = 0 /\ history = <<>> /\ amls = <<>> /\ aml_preds = <<>>
    /\ n_ms = 0 /\ n_cfg = 0 /\ upd_state_val = 0 /\ flg_continute = TRUE
    /\ inner_pipes = <<>> /\ inner_preds = <<>>
    /\ factory_calls = <<>> /\ inner_calls = <<>> /\ outer_calls = <<>>
    /\ predict_calls = <<>>
    /\ calls_left = calls

\* ------------------------------------------------------------ fit_predict
\* lines 210-218
FitPredictStart ==
    /\ pc \in {"idle", "done", "failed"}
    /\ calls_left > 0
    /\ calls_left' = calls_left - 1
    /\ time_spent' = 0
    /\ history' = <<>>
    /\ amls' = [i \in 1..Len(configs_list) |-> <<>>]
    /\ aml_preds' = [i \in 1..Len(configs_list) |-> <<>>]
    /\ n_ms' = 0 /\ n_cfg' = 0 /\ upd_state_val' = 0 /\ flg_continute' = TRUE
    /\ it' = 0
    /\ inner_pipes' = <<>> /\ inner_preds' = <<>>
    /\ factory_calls' = <<>> /\ inner_calls' = <<>> /\ outer_calls' = <<>>
    /\ pc' = "while"
    /\ UNCHANGED <<ctor, fitstate, predict_calls>>

\* lines 220-223: the head of the while loop and the start of the for loop;
\* over an empty configs_list the for loop has no iteration and the while
\* loop comes round again
NextPass ==
    /\ pc = "while"
    /\ flg_continute
    /\ n_ms < MaxPasses \/ Len(configs_list) > 0
    /\ n_ms' = n_ms + 1
    /\ it' = 0
    /\ pc' = IF Len(configs_list) = 0 THEN "while" ELSE "for"
    /\ UNCHANGED <<ctor, fitstate, time_spent, history, amls,
                   aml_preds, n_cfg, upd_state_val, flg_continute, inner_pipes,
                   inner_preds, logs, calls_left>>

\* self.random_state_keys after line 224: _get_upd_states fills a new dict d
\* at every level and only reads its argument
SelfSeedsAfterUpdate_InPlace(seeds, upd_value) == _get_upd_states(seeds, upd_value)
SelfSeedsAfterUpdate(seeds, upd_value) == seeds
\* self.kwargs after lines 227-232: cur_kwargs is a copy, the del of line 232
\* and the assignment of line 231 reach the copy and the fresh overrides only
SelfKwargsAfterMerge_NoCopy(random_states, kw) ==
    [k \in (DOMAIN kw) \ (DOMAIN random_states) |-> kw[k]]
SelfKwargsAfterMerge(random_states, kw) == kw

\* lines 227-233: the loop that combines the overrides with self.kwargs
MergeRaisesTypeError(random_states, kw) ==
    \E k \in (DOMAIN random_states) \cap (DOMAIN kw) :
        ~IsDict(kw[k]) \/ ~IsDict(random_states[k])
MergedStates(random_states, kw) ==
    [k \in DOMAIN random_states |->
        IF k \in DOMAIN kw
        THEN DictNode(DictMerge(kw[k].dict, random_states[k].dict))
        ELSE random_states[k]]
CurKwargs(random_states, kw) ==
    [k \in (DOMAIN kw) \ (DOMAIN random_states) |-> kw[k]]
\* **random_states, **cur_kwargs of the factory call
FactoryParams(random_states, kw) ==
    DictMerge(MergedStates(random_states, kw), CurKwargs(random_states, kw))

\* lines 248-249; time_left < sum(history) / len(history) is a comparison of
\* reals, len(history) > 0, so it is time_left * len(history) < sum(history)
StopCondition_OffByOne(time_left, hist, upd, max_runs, n_configs) ==
    \/ time_left * Len(hist) < Sum(hist)
    \/ upd > max_runs * n_configs
StopCondition_PerConfig(time_left, hist, upd, max_runs, n_configs) ==
    LET own == {i \in 1..Len(hist) : (Len(hist) - i) % n_configs = 0}
        ownSum == Sum([i \in 1..Len(hist) |-> IF i \in own THEN hist[i] ELSE 0])
    IN  \/ time_left * Cardinality(own) < ownSum
        \/ upd >= max_runs * n_configs
StopCondition_LastRun(time_left, hist, upd, max_runs, n_configs) ==
    \/ time_left < hist[Len(hist)]
    \/ upd >= max_runs * n_configs
StopCondition(time_left, hist, upd, max_runs, n_configs) ==
    \/ time_left * Len(hist) < Sum(hist)
    \/ upd >= max_runs * n_configs

\* lines 250-251 and the loop heads 220, 223: where control goes after the
\* iteration of configuration i (0-based) out of n
NextPc_NoBreak(stop, i, n) ==
    IF i + 1 < n THEN "for" ELSE IF stop THEN "drop" ELSE "while"
NextPc(stop, i, n) ==
    IF stop THEN "drop" ELSE IF i + 1 < n THEN "for" ELSE "while"

\* line 255
DropCondition_FlagOnly(nms, dl) == dl
DropCondition_OffByOne(nms, dl) == nms >= 1 /\ dl
DropCondition_Inverted(nms, dl) == nms > 1 /\ ~dl
DropCondition(nms, dl) == nms > 1 /\ dl

\* one iteration of the for loop whose training succeeds, lines 223-251;
\* d is the time the factory call and automl.fit_predict take, and the timer
\* reads of lines 247 and 248 are of the same instant
RunOk(d) ==
    /\ pc = "for"
    /\ LET config == configs_list[it + 1]
           random_states == _get_upd_states(random_state_keys, upd_state_val)
           upd == upd_state_val + 1
       IN
       /\ ~MergeRaisesTypeError(random_states, kwargs)
       /\ LET params == FactoryParams(random_states, kwargs)
              automl == [config_path |-> config, gen |-> upd_state_val,
                         params |-> params]
              val_pred == [kind |-> "automl", gen |-> upd_state_val, data |-> "train"]
              spent == time_spent + d
              hist == Append(history, spent - Sum(history))
              stop == StopCondition(TimeLeft(timeout, spent), hist, upd,
                                    max_runs_per_config, Len(configs_list))
          IN
          /\ n_cfg' = it
          /\ upd_state_val' = upd
          /\ factory_calls' = Append(factory_calls,
                 [time_left |-> TimeLeft(timeout, time_spent),
                  config_path |-> config, params |-> params])
          /\ amls' = [amls EXCEPT ![it + 1] = Append(@, from_automl(automl))]
          /\ aml_preds' = [aml_preds EXCEPT ![it + 1] = Append(@, val_pred)]
          /\ time_spent' = spent
          /\ history' = hist
          /\ flg_continute' = IF stop THEN FALSE ELSE flg_continute
          /\ pc' = NextPc(stop, it, Len(configs_list))
          /\ it' = IF pc' = "for" THEN it + 1 ELSE it
    /\ random_state_keys' = SelfSeedsAfterUpdate(random_state_keys, upd_state_val)
    /\ kwargs' = SelfKwargsAfterMerge(
                     _get_upd_states(random_state_keys, upd_state_val), kwargs)
    /\ UNCHANGED <<fixed, fitstate, n_ms, inner_pipes,
                   inner_preds, inner_calls, outer_calls, predict_calls,
                   calls_left>>

\* one iteration whose factory call or automl.fit_predict raises, lines 235-242
RunRaises_Swallowed(d) ==
    /\ pc = "for"
    /\ LET config == configs_list[it + 1]
           random_states == _get_upd_states(random_state_keys, upd_state_val)
       IN
       /\ ~MergeRaisesTypeError(random_states, kwargs)
       /\ factory_calls' = Append(factory_calls,
              [time_left |-> TimeLeft(timeout, time_spent),
               config_path |-> config,
               params |-> FactoryParams(random_states, kwargs)])
    /\ n_cfg' = it
    /\ upd_state_val' = upd_state_val + 1
    /\ time_spent' = time_spent + d
    /\ pc' = IF Len(history) > 0 THEN "drop" ELSE "failed"
    /\ random_state_keys' = SelfSeedsAfterUpdate(random_state_keys, upd_state_val)
    /\ kwargs' = SelfKwargsAfterMerge(
                     _get_upd_states(random_state_keys, upd_state_val), kwargs)
    /\ UNCHANGED <<fixed, fitstate, it, history, amls, aml_preds,
                   n_ms, flg_continute, inner_pipes, inner_preds, inner_calls,
                   outer_calls, predict_calls, calls_left>>
RunRaises(d) ==
    /\ pc = "for"
    /\ LET config == configs_list[it + 1]
           random_states == _get_upd_states(random_state_keys, upd_state_val)
       IN
       /\ ~MergeRaisesTypeError(random_states, kwargs)
       /\ factory_calls' = Append(factory_calls,
              [time_left |-> TimeLeft(timeout, time_spent),
               config_path |-> config,
               params |-> FactoryParams(random_states, kwargs)])
    /\ n_cfg' = it
    /\ upd_state_val' = upd_state_val + 1
    /\ time_spent' = time_spent + d
    /\ pc' = "failed"
    /\ random_state_keys' = SelfSeedsAfterUpdate(random_state_keys, upd_state_val)
    /\ kwargs' = SelfKwargsAfterMerge(
                     _get_upd_states(random_state_keys, upd_state_val), kwargs)
    /\ UNCHANGED <<fixed, fitstate, it, history, amls, aml_preds,
                   n_ms, flg_continute, inner_pipes, inner_preds, inner_calls,
                   outer_calls, predict_calls, calls_left>>

\* one iteration whose merge with self.kwargs raises TypeError, line 231
MergeRaises ==
    /\ pc = "for"
    /\ MergeRaisesTypeError(_get_upd_states(random_state_keys, upd_state_val), kwargs)
    /\ n_cfg' = it
    /\ upd_state_val' = upd_state_val + 1
    /\ pc' = "failed"
    /\ random_state_keys' = SelfSeedsAfterUpdate(random_state_keys, upd_state_val)
    /\ kwargs' = kwargs
    /\ UNCHANGED <<fixed, fitstate, it, time_spent, history, amls,
                   aml_preds, n_ms, flg_continute, inner_pipes, inner_preds,
                   logs, calls_left>>

\* lines 255-261: the drop of the last run and the pruning of empty groups
DropLastAndPrune_PredKept ==
    /\ pc = "drop"
    /\ LET drop == DropCondition(n_ms, drop_last)
           popped(groups) == [groups EXCEPT ![n_cfg + 1] = SubSeq(@, 1, Len(@) - 1)]
           a == IF drop THEN popped(amls) ELSE amls
       IN
       /\ amls' = SelectSeq(a, LAMBDA x : Len(x) > 0)
       /\ aml_preds' = SelectSeq(aml_preds, LAMBDA x : Len(x) > 0)
       /\ pc' = IF Len(amls') > 0 THEN "inner" ELSE "outer"
    /\ UNCHANGED <<ctor, fitstate, it, time_spent, history, n_ms, n_cfg,
                   upd_state_val, flg_continute, inner_pipes, inner_preds,
                   logs, calls_left>>
DropLastAndPrune ==
    /\ pc = "drop"
    /\ LET drop == DropCondition(n_ms, drop_last)
           popped(groups) == [groups EXCEPT ![n_cfg + 1] = SubSeq(@, 1, Len(@) - 1)]
           a == IF drop THEN popped(amls) ELSE amls
           p == IF drop THEN popped(aml_preds) ELSE aml_preds
       IN
       IF drop /\ Len(amls[n_cfg + 1]) = 0
       THEN \* pop from empty list
            /\ pc' = "failed"
            /\ UNCHANGED <<amls, aml_preds>>
       ELSE /\ amls' = SelectSeq(a, LAMBDA x : Len(x) > 0)
            /\ aml_preds' = SelectSeq(p, LAMBDA x : Len(x) > 0)
            /\ pc' = IF Len(amls') > 0 THEN "inner" ELSE "outer"
    /\ UNCHANGED <<ctor, fitstate, it, time_spent, history, n_ms, n_cfg,
                   upd_state_val, flg_continute, inner_pipes, inner_preds,
                   logs, calls_left>>

\* one iteration of the inner blend loop, lines 267-273
InnerBlend ==
    /\ pc = "inner"
    /\ LET i == Len(inner_pipes) + 1
           preds == aml_preds[i]
           pipes == amls[i]
           blender == inner_blend
       IN
       /\ inner_calls' = Append(inner_calls, [preds |-> preds, pipes |-> pipes])
       /\ IF Len(pipes) = 0
          THEN /\ pc' = "failed"
               /\ UNCHANGED <<inner_pipes, inner_preds>>
          ELSE \E sel \in Retained(blender, Len(pipes)) :
               LET val_pred == BlendPred(blender, Pick(preds, sel))
                   kept == Pick(pipes, sel)
                   inner_pipe == [j \in 1..Len(kept) |-> Unwrap(kept[j])]
               IN
               /\ inner_preds' = Append(inner_preds, val_pred)
               /\ inner_pipes' = Append(inner_pipes,
                      from_blended(inner_pipe, Fitted(blender, sel, Len(pipes))))
               /\ pc' = IF i < Len(amls) THEN "inner" ELSE "outer"
    /\ UNCHANGED <<ctor, fitstate, it, time_spent, history, amls, aml_preds,
                   n_ms, n_cfg, upd_state_val, flg_continute, factory_calls,
                   outer_calls, predict_calls, calls_left>>

\* lines 276-278
OuterBlend ==
    /\ pc = "outer"
    /\ outer_calls' = Append(outer_calls, [preds |-> inner_preds, pipes |-> inner_pipes])
    /\ IF Len(inner_pipes) = 0
       THEN /\ pc' = "failed"
            /\ UNCHANGED fitstate
       ELSE \E sel \in Retained(outer_blend, Len(inner_pipes)) :
            /\ outer_pipes' = Pick(inner_pipes, sel)
            /\ outer_pipes_set' = TRUE
            /\ outer_blend' = Fitted(outer_blend, sel, Len(inner_pipes))
            /\ pc' = "done"
    /\ UNCHANGED <<ctor, locals, factory_calls, inner_calls, predict_calls,
                   calls_left>>

\* ---------------------------------------------------------------- predict
\* lines 292-307
Predict_Refits ==
    /\ pc \in {"idle", "done", "failed"}
    /\ outer_pipes_set
    /\ Len(predict_calls) < MaxPredicts
    /\ LET inner(amls_pipe) ==
               LET automls == Unwrap(amls_pipe)
               IN  [j \in 1..Len(automls) |->
                       [kind |-> "automl", gen |-> automls[j].gen, data |-> "test"]]
           outer_preds == [i \in 1..Len(outer_pipes) |->
                              BlenderPredict(outer_pipes[i].blender, inner(outer_pipes[i]))]
       IN predict_calls' = Append(predict_calls,
              [automl_preds |-> [i \in 1..Len(outer_pipes) |-> inner(outer_pipes[i])],
               outer_preds |-> outer_preds,
               pred |-> BlenderPredict(outer_blend, outer_preds)])
    /\ outer_pipes' = Pick(outer_pipes, <<1>>)
    /\ outer_blend' = Fitted(outer_blend, <<1>>, Len(outer_pipes))
    /\ UNCHANGED <<ctor, outer_pipes_set, pc, locals, factory_calls, inner_calls,
                   outer_calls, calls_left>>
Predict ==
    /\ pc \in {"idle", "done", "failed"}
    /\ outer_pipes_set
    /\ Len(predict_calls) < MaxPredicts
    /\ LET inner(amls_pipe) ==
               LET automls == Unwrap(amls_pipe)
               IN  [j \in 1..Len(automls) |->
                       [kind |-> "automl", gen |-> automls[j].gen, data |-> "test"]]
           outer_preds == [i \in 1..Len(outer_pipes) |->
                              BlenderPredict(outer_pipes[i].blender, inner(outer_pipes[i]))]
       IN predict_calls' = Append(predict_calls,
              [automl_preds |-> [i \in 1..Len(outer_pipes) |-> inner(outer_pipes[i])],
               outer_preds |-> outer_preds,
               pred |-> BlenderPredict(outer_blend, outer_preds)])
    /\ UNCHANGED <<ctor, fitstate, pc, locals, factory_calls, inner_calls,
                   outer_calls, calls_left>>

Next ==
    \/ FitPredictStart
    \/ NextPass
    \/ \E d \in Durations : RunOk(d)
    \/ \E d \in Durations : RunRaises(d)
    \/ MergeRaises
    \/ DropLastAndPrune
    \/ InnerBlend
    \/ OuterBlend
    \/ Predict

\* the scheduler under every configuration list, budget and run bound, with
\* the seed map found in the default configuration
Init ==
    InitWith(ConfigListArgs, 0..MaxRunsPerConfig, Timeouts, BOOLEAN,
             {CfgDepth2}, {NoneArg}, {KwNone, KwScalar}, BlenderNames,
             {"BestModelSelector"}, 1)
Spec == Init /\ [][Next]_vars

\* every seed map and caller-supplied kwargs, under a budget that never binds
InitSeeds ==
    InitWith({NoneArg, Some(<<>>), Some(SubSeq(CfgPath, 1, 2))}, 1..2, {HugeTimeout},
             {TRUE}, FactoryConfigs, SeedMapArgs, KwargsArgs,
             {"MeanBlender"}, {"BestModelSelector"}, 1)
SpecSeeds == InitSeeds /\ [][Next]_vars

\* the seed map searched in every default configuration of the factory
InitLocate ==
    InitWith({NoneArg, Some(<<>>), Some(SubSeq(CfgPath, 1, 2))}, 1..2, {100},
             BOOLEAN, FactoryConfigs, {NoneArg}, {KwNone, KwReader, KwScalar},
             {"MeanBlender"}, {"BestModelSelector"}, 1)
SpecLocate == InitLocate /\ [][Next]_vars

\* fit_predict called again on a fitted or failed orchestrator
InitRefit ==
    InitWith({NoneArg, Some(<<>>), Some(SubSeq(CfgPath, 1, 2))}, 1..2, {100},
             BOOLEAN, {CfgDepth2}, {NoneArg}, {KwNone, KwScalar},
             {"MeanBlender"}, {"BestModelSelector"}, MaxCalls)
SpecRefit == InitRefit /\ [][Next]_vars

\* ------------------------------------------------------------- properties
RECURSIVE TotalRuns(_)
TotalRuns(groups) ==
    IF Len(groups) = 0 THEN 0 ELSE Len(groups[1]) + TotalRuns(Tail(groups))
\* the generations of the automls wrapped in a list of run groups
GensOf(groups) ==
    UNION {{Unwrap(groups[i][j]).gen : j \in 1..Len(groups[i])} : i \in 1..Len(groups)}
PredGensOf(groups) ==
    UNION {{groups[i][j].gen : j \in 1..Len(groups[i])} : i \in 1..Len(groups)}
PrefixSum(k) == Sum(SubSeq(history, 1, k))
\* the two halves of the stop test as they stood after the k-th record
TimeFiredAt(k) == (timeout - PrefixSum(k)) * k < PrefixSum(k)
CountFiredAt(k) == k >= max_runs_per_config * Len(configs_list)
SameCall == calls_left' = calls_left

\* C1: the stop test is made exactly when a run is recorded, never before the
\* first: the step that records a run clears flg_continute and leaves the loop
\* iff the remaining budget is below the mean of the recorded durations or the
\* run counter has reached max_runs_per_config * len(configs_list); no other
\* step of the call changes the flag; once it is cleared no run is started.
C1_Step ==
    /\ (Len(history') = Len(history) + 1) =>
          LET k == Len(history')
              fired == \/ (timeout - time_spent') * k < Sum(history')
                       \/ upd_state_val' >= max_runs_per_config * Len(configs_list)
          IN  /\ flg_continute' = ~fired
              /\ (pc' = "drop") = fired
              /\ flg_continute
    /\ (SameCall /\ Len(history') = Len(history)) => flg_continute' = flg_continute
    /\ (SameCall /\ ~flg_continute) =>
          /\ factory_calls' = factory_calls
          /\ history' = history
          /\ upd_state_val' = upd_state_val
          /\ amls' = amls \/ pc = "drop"
    /\ (history' = <<>> /\ pc' \in {"while", "for"}) => flg_continute'
C1_StopRule == [][C1_Step]_vars
\* stopped by the time test inside the first pass, before the last configuration
C1_Witness ==
    /\ pc = "drop" /\ ~flg_continute /\ n_ms = 1
    /\ n_cfg + 1 < Len(configs_list)
    /\ upd_state_val < max_runs_per_config * Len(configs_list)
    /\ Len(history) = 2 /\ TimeFiredAt(2) /\ ~TimeFiredAt(1)

\* C2 (as stated in the specification): when the scheduling loop has finished, every configuration
\* of configs_list has had its first run.
C2_EveryConfigStarted ==
    pc = "drop" => \A i \in 1..Len(configs_list) : Len(amls[i]) >= 1
\* C2 (amended): when the scheduling loop has finished, the first
\* configuration has its first run whatever the budget, and a later
\* configuration i has a run iff the stop test did not fire after any of the
\* first i-1 runs.
C2_FirstRunUnlessStopped ==
    pc = "drop" =>
        /\ Len(amls[1]) >= 1
        /\ Unwrap(amls[1][1]).gen = 0
        /\ \A i \in 2..Len(configs_list) :
              (Len(amls[i]) >= 1) =
                  (\A k \in 1..(i - 1) : ~(TimeFiredAt(k) \/ CountFiredAt(k)))
\* a budget exhausted from the start: the first run is made, the second
\* configuration is not started
C2_Witness ==
    /\ pc = "drop" /\ timeout = 0 /\ Len(configs_list) >= 2
    /\ max_runs_per_config >= 1
    /\ Len(amls[1]) = 1 /\ Len(amls[2]) = 0

\* C3 (as stated in the specification): after the drop step, one run is missing iff drop_last is
\* set and more than one run was recorded.
C3_DropsWhenHistoryLong ==
    pc \in {"inner", "outer", "done"} =>
        TotalRuns(amls) =
            Len(history) - (IF drop_last /\ Len(history) > 1 THEN 1 ELSE 0)
\* C3 (amended): the drop step removes exactly one run, the most recently
\* appended one, which is the last of the group active when the scheduler
\* stopped, iff drop_last is set and a second pass had been started
\* (n_ms > 1); otherwise it keeps every recorded run and prediction.
C3_Step ==
    (pc = "drop" /\ pc' # "drop") =>
        LET fires == drop_last /\ n_ms > 1
            last == upd_state_val - 1
            gone == IF fires THEN {last} ELSE {}
            active == amls[n_cfg + 1]
        IN  /\ pc' \in {"inner", "outer"}
            /\ GensOf(amls') = GensOf(amls) \ gone
            /\ TotalRuns(amls') = Len(history) - Cardinality(gone)
            /\ TotalRuns(aml_preds') = Len(history) - Cardinality(gone)
            /\ PredGensOf(aml_preds') = GensOf(amls')
            /\ Unwrap(active[Len(active)]).gen = last
C3_DropsAfterSecondPass == [][C3_Step]_vars
\* two configurations, stopped in the second pass, the last run dropped
C3_Witness ==
    /\ pc = "inner" /\ inner_pipes = <<>> /\ drop_last /\ n_ms = 2
    /\ Len(configs_list) = 2 /\ n_cfg = 0
    /\ Len(history) = 3 /\ TotalRuns(amls) = 2
    /\ GensOf(amls) = {0, 1}

\* C4 (as stated in the specification): an empty configs_list behaves as the default one, so a
\* pass of the scheduling loop that has come round has made at least one run.
C4_PassMakesRun ==
    (pc = "while" /\ n_ms >= 1) => Len(history) >= 1

\* the seed leaves of a nested dict as <<path, value>> pairs
RECURSIVE SeedLeaves(_, _)
SeedLeaves(d, path) ==
    UNION {IF IsDict(d[k]) THEN SeedLeaves(d[k].dict, Append(path, k))
                           ELSE {<<Append(path, k), d[k].int>>} : k \in DOMAIN d}
RECURSIVE ValueAt(_, _)
ValueAt(d, path) ==
    IF Len(path) = 1 THEN d[path[1]].int ELSE ValueAt(d[path[1]].dict, Tail(path))
InScheduler == pc \in {"while", "for", "drop"}

\* C5: the run counter starts at 0 with the call, grows by exactly one with
\* every run and is never reset inside the call; the k-th factory call of a
\* call receives, at every seed location, the base seed plus k-1, so no two
\* runs of one call receive the same seeds when the seed map has a seed.
C5_Inv ==
    /\ InScheduler => upd_state_val = Len(factory_calls)
    /\ \A k \in 1..Len(factory_calls) :
          \A leaf \in SeedLeaves(random_state_keys, <<>>) :
              ValueAt(factory_calls[k].params, leaf[1]) = leaf[2] + (k - 1)
    /\ SeedLeaves(random_state_keys, <<>>) # {} =>
          \A k1, k2 \in 1..Len(factory_calls) :
              k1 # k2 => factory_calls[k1].params # factory_calls[k2].params
    /\ InScheduler =>
          /\ Cardinality(GensOf(amls)) = TotalRuns(amls)
          /\ GensOf(amls) = 0..(upd_state_val - 1)
C5_Step ==
    /\ ~SameCall => upd_state_val' = 0
    /\ SameCall =>
          /\ upd_state_val' \in {upd_state_val, upd_state_val + 1}
          /\ (Len(factory_calls') # Len(factory_calls)) =>
                /\ Len(factory_calls') = Len(factory_calls) + 1
                /\ upd_state_val' = upd_state_val + 1
C5_RunCounter == [](C5_Inv) /\ [][C5_Step]_vars
\* the example seed map with colliding kwargs, two configurations, a third
\* run in the second pass
C5_Witness ==
    /\ pc = "for" /\ n_ms = 2 /\ Len(configs_list) = 2
    /\ random_state_keys = DocSeedMap /\ kwargs = KwGbm
    /\ upd_state_val = 3 /\ Len(factory_calls) = 3
    /\ ValueAt(factory_calls[3].params, <<"gbm_params", "default_params", "seed">>) = 44

\* the merge of two nested dicts at every depth, the second winning at leaves
RECURSIVE DeepMerge(_, _)
DeepMerge(a, b) ==
    [k \in (DOMAIN a) \cup (DOMAIN b) |->
        IF k \notin DOMAIN b THEN a[k]
        ELSE IF k \notin DOMAIN a THEN b[k]
        ELSE IF IsDict(a[k]) /\ IsDict(b[k])
             THEN DictNode(DeepMerge(a[k].dict, b[k].dict))
             ELSE b[k]]

\* C6 (as stated in the specification): for every key of the generated overrides that is also a
\* key of kwargs, the factory receives the deep merge of the two values.
C6_DeepMerged ==
    \A i \in 1..Len(factory_calls) :
        LET overrides == _get_upd_states(random_state_keys, i - 1)
        IN  \A k \in (DOMAIN overrides) \cap (DOMAIN kwargs) :
                factory_calls[i].params[k] = DeepMerge(kwargs, overrides)[k]

\* C7: a run whose training raises aborts the call: the step that raises
\* touches neither the persisted fit state nor the recorded runs and no blend
\* has been invoked; after it the call starts no run, retries nothing and
\* invokes no blend; the fit state is written by the outer blend only, so it
\* is what it was before the call.
C7_Inv ==
    (Len(factory_calls) > Len(history)) =>
        /\ pc = "failed"
        /\ inner_calls = <<>> /\ outer_calls = <<>>
        /\ inner_pipes = <<>> /\ inner_preds = <<>>
C7_Step ==
    /\ (pc = "for" /\ pc' = "failed") =>
          /\ fitstate' = fitstate
          /\ history' = history /\ amls' = amls /\ aml_preds' = aml_preds
          /\ inner_calls' = <<>> /\ outer_calls' = <<>>
    /\ (pc = "failed" /\ SameCall) =>
          /\ pc' = "failed"
          /\ factory_calls' = factory_calls
          /\ inner_calls' = inner_calls /\ outer_calls' = outer_calls
          /\ fitstate' = fitstate
    /\ (pc \in {"while", "for", "drop", "inner"}) => fitstate' = fitstate
C7_FailureAborts == [](C7_Inv) /\ [][C7_Step]_vars
\* a second call that fails in its second run, on an orchestrator fitted by
\* the first call
C7_Witness ==
    /\ pc = "failed" /\ outer_pipes_set /\ calls_left = 0
    /\ Len(history) = 1 /\ Len(factory_calls) = 2
    /\ Len(outer_pipes) = 1

AfterDrop == pc \in {"inner", "outer", "done"}
C8_Scenario == timeout = 100 /\ Len(configs_list) = 3 /\ max_runs_per_config = 1

\* C8 (as stated in the specification): timeout 100, 3 configurations, max_runs_per_config 1:
\* 3 runs, one per configuration, 3 single-run inner blends, an outer blend
\* over 3 entries.
C8_ExactlyThreeRuns ==
    (C8_Scenario /\ pc = "done") =>
        /\ Len(history) = 3
        /\ Len(inner_calls) = 3
        /\ \A c \in 1..Len(inner_calls) : Len(inner_calls[c].pipes) = 1
        /\ Len(outer_calls) = 1 /\ Len(outer_calls[1].pipes) = 3
\* C8 (amended): in that scenario the scheduler makes at most 3 runs, in one
\* pass, one per configuration in order, stopping at the first run after
\* which the remaining budget is below the mean duration, 3 runs iff that
\* happens after neither of the first two; nothing is dropped; one single-run
\* inner blend is made per configuration that ran and one outer blend over
\* as many entries.
C8_AtMostThreeRuns ==
    (C8_Scenario /\ pc = "done") =>
        /\ Len(history) \in 1..3 /\ n_ms = 1
        /\ \A k \in 1..(Len(history) - 1) : ~TimeFiredAt(k)
        /\ Len(history) < 3 => TimeFiredAt(Len(history))
        /\ Len(inner_calls) = Len(history)
        /\ \A c \in 1..Len(inner_calls) :
              /\ Len(inner_calls[c].pipes) = 1 /\ Len(inner_calls[c].preds) = 1
              /\ Unwrap(inner_calls[c].pipes[1]).config_path = configs_list[c]
              /\ Unwrap(inner_calls[c].pipes[1]).gen = c - 1
        /\ Len(outer_calls) = 1
        /\ Len(outer_calls[1].pipes) = Len(history)
        /\ Len(outer_calls[1].preds) = Len(history)
C8_Witness ==
    /\ C8_Scenario /\ pc = "done" /\ Len(history) = 3
    /\ Len(inner_calls) = 3 /\ Len(outer_calls[1].pipes) = 3

\* C9: one configuration, max_runs_per_config 5, drop_last set and a budget
\* under which the time test fires after no run: 5 runs are made, the last
\* one is dropped and the single inner blend is given the first 4.
C9_FiveRunsDropOne ==
    (/\ Len(configs_list) = 1 /\ max_runs_per_config = 5 /\ drop_last
     /\ AfterDrop
     /\ \A k \in 1..Len(history) : ~TimeFiredAt(k)) =>
        /\ Len(history) = 5 /\ upd_state_val = 5 /\ n_ms = 5
        /\ Len(amls) = 1 /\ Len(amls[1]) = 4 /\ Len(aml_preds[1]) = 4
        /\ GensOf(amls) = 0..3
        /\ pc \in {"outer", "done"} =>
              /\ Len(inner_calls) = 1
              /\ Len(inner_calls[1].pipes) = 4 /\ Len(inner_calls[1].preds) = 4
C9_Witness ==
    /\ Len(configs_list) = 1 /\ max_runs_per_config = 5 /\ drop_last
    /\ timeout = HugeTimeout /\ pc = "outer"
    /\ Len(history) = 5 /\ Len(inner_calls[1].pipes) = 4

C10_Scenario == drop_last /\ max_runs_per_config = 1

\* C10 (as stated in the specification): with drop_last and one run per configuration every run
\* group is pruned and the outer blend is invoked with empty lists.
C10_OuterGetsEmpty ==
    (C10_Scenario /\ Len(outer_calls) = 1) =>
        /\ amls = <<>>
        /\ outer_calls[1].pipes = <<>> /\ outer_calls[1].preds = <<>>
\* C10 (amended): with drop_last and max_runs_per_config = 1 the scheduler
\* stops in its first pass, so nothing is dropped: every configuration that
\* ran keeps its single run and the outer blend is invoked once, with one
\* prediction and one pipeline per configuration that ran, never with empty
\* lists.
C10_OuterGetsEveryRun ==
    C10_Scenario =>
        /\ AfterDrop =>
              /\ n_ms = 1 /\ Len(history) >= 1
              /\ Len(amls) = Len(history)
              /\ \A g \in 1..Len(amls) : Len(amls[g]) = 1 /\ Len(aml_preds[g]) = 1
              /\ GensOf(amls) = 0..(Len(history) - 1)
        /\ Len(outer_calls) <= 1
        /\ Len(outer_calls) = 1 =>
              /\ pc = "done"
              /\ Len(outer_calls[1].pipes) = Len(history)
              /\ Len(outer_calls[1].preds) = Len(history)
              /\ Len(outer_calls[1].pipes) >= 1
C10_Witness ==
    /\ C10_Scenario /\ pc = "done" /\ Len(configs_list) = 2
    /\ Len(outer_calls) = 1 /\ Len(outer_calls[1].pipes) = 2
    /\ TotalRuns(amls) = 2

\* the configurations that have a run left after the drop step
ConfigsOf(groups) ==
    UNION {{Unwrap(groups[i][j]).config_path : j \in 1..Len(groups[i])} : i \in 1..Len(groups)}

\* C11: every group given to an inner blend is non-empty and holds as many
\* predictions as wrapped artifacts, pairwise of the same run and in
\* generation order, all of one configuration; once the inner loop is over
\* there is exactly one inner blend node per configuration that still has a
\* run, each holding its own fitted copy of the inner strategy while
\* self.inner_blend stays unfitted; the outer blend receives one prediction
\* and one blended wrapper per such configuration, position by position.
C11_Inv ==
    /\ inner_blend.fitted_on = 0
    /\ \A c \in 1..Len(inner_calls) :
          LET preds == inner_calls[c].preds
              pipes == inner_calls[c].pipes
          IN  /\ Len(pipes) >= 1
              /\ Len(preds) = Len(pipes)
              /\ \A j \in 1..Len(pipes) :
                    /\ preds[j].gen = Unwrap(pipes[j]).gen
                    /\ Unwrap(pipes[j]).config_path = Unwrap(pipes[1]).config_path
                    /\ j > 1 => Unwrap(pipes[j - 1]).gen < Unwrap(pipes[j]).gen
              /\ \A c2 \in 1..Len(inner_calls) :
                    c2 # c => Unwrap(inner_calls[c2].pipes[1]).config_path
                                # Unwrap(pipes[1]).config_path
    /\ Len(inner_pipes) = Len(inner_preds)
    /\ (pc \in {"inner", "outer", "done"}) =>
          /\ Len(inner_pipes) = Len(inner_calls)
          /\ \A c \in 1..Len(inner_pipes) :
                LET node == inner_pipes[c]
                    automls == Unwrap(node)
                IN  /\ node.blender.fitted_on = Len(inner_calls[c].pipes)
                    /\ node.blender.name = inner_blend.name
                    /\ Len(automls) >= 1
                    /\ Len(inner_preds[c].of) = Len(automls)
                    /\ \A j \in 1..Len(automls) :
                          /\ inner_preds[c].of[j].gen = automls[j].gen
                          /\ \E q \in 1..Len(inner_calls[c].pipes) :
                                automls[j] = Unwrap(inner_calls[c].pipes[q])
    /\ (pc \in {"outer", "done"}) =>
          /\ Len(inner_calls) = Len(amls)
          /\ Len(inner_calls) = Cardinality(ConfigsOf(amls))
    /\ Len(outer_calls) = 1 =>
          /\ outer_calls[1].pipes = inner_pipes
          /\ outer_calls[1].preds = inner_preds
          /\ Len(outer_calls[1].pipes) = Cardinality(ConfigsOf(amls))
          /\ Len(outer_calls[1].preds) = Cardinality(ConfigsOf(amls))
C11_Step ==
    (Len(inner_calls') = Len(inner_calls) + 1) =>
        /\ inner_calls'[Len(inner_calls')].pipes = amls[Len(inner_calls')]
        /\ inner_calls'[Len(inner_calls')].preds = aml_preds[Len(inner_calls')]
C11_BlendTreeAligned == [](C11_Inv) /\ [][C11_Step]_vars
\* two configurations survive, the first with two runs, after a drop
C11_Witness ==
    /\ pc = "done" /\ drop_last /\ n_ms = 2 /\ Len(configs_list) = 2
    /\ Len(history) = 4
    /\ Len(inner_calls) = 2
    /\ Len(inner_calls[1].pipes) = 2 /\ Len(inner_calls[2].pipes) = 1
    /\ Len(outer_calls[1].pipes) = 2

\* the nested shape of a dict: its keys at every level, leaves erased
RECURSIVE Shape(_)
Shape(d) ==
    [k \in DOMAIN d |-> IF IsDict(d[k]) THEN DictNode(Shape(d[k].dict)) ELSE IntNode(0)]
ExampleOverrides(v) == "a" :> DictNode("seed" :> IntNode(v))

\* C12: for the seed map of the orchestrator and any two offsets used so far,
\* _get_upd_states returns dicts of the shape of the seed map whose leaves are
\* the base seed plus the offset, so that they differ by the difference of
\* the offsets; the seeds the factory received in two runs differ likewise;
\* the seed map {a: {seed: 42}} gives 42, 43, 44 at offsets 0, 1, 2.
C12_ShapeAndOffsets ==
    /\ \A g1, g2 \in 0..upd_state_val :
          LET s1 == _get_upd_states(random_state_keys, g1)
              s2 == _get_upd_states(random_state_keys, g2)
          IN  /\ Shape(s1) = Shape(random_state_keys)
              /\ Shape(s2) = Shape(s1)
              /\ {l[1] : l \in SeedLeaves(s1, <<>>)}
                    = {l[1] : l \in SeedLeaves(random_state_keys, <<>>)}
              /\ \A leaf \in SeedLeaves(random_state_keys, <<>>) :
                    /\ ValueAt(s1, leaf[1]) = leaf[2] + g1
                    /\ ValueAt(s1, leaf[1]) - ValueAt(s2, leaf[1]) = g1 - g2
    /\ \A k1, k2 \in 1..Len(factory_calls) :
          \A leaf \in SeedLeaves(random_state_keys, <<>>) :
              ValueAt(factory_calls[k1].params, leaf[1])
                - ValueAt(factory_calls[k2].params, leaf[1]) = k1 - k2
    /\ random_state_keys = ExampleSeedMap =>
          /\ \A g \in 0..2 :
                _get_upd_states(random_state_keys, g) = ExampleOverrides(42 + g)
          /\ (kwargs = KwNone) =>
                \A k \in 1..Len(factory_calls) :
                    factory_calls[k].params = ExampleOverrides(42 + k - 1)
C12_Witness ==
    /\ random_state_keys = ExampleSeedMap /\ kwargs = KwNone
    /\ upd_state_val = 3 /\ Len(factory_calls) = 3
    /\ factory_calls[1].params = ExampleOverrides(42)
    /\ factory_calls[2].params = ExampleOverrides(43)
    /\ factory_calls[3].params = ExampleOverrides(44)

\* the paths of a nested dict that end in the given key
RECURSIVE KeyPaths(_, _, _)
KeyPaths(d, key, path) ==
    (IF key \in DOMAIN d THEN {Append(path, key)} ELSE {})
    \cup UNION {KeyPaths(d[k].dict, key, Append(path, k)) :
                    k \in {x \in DOMAIN d : IsDict(d[x])}}

\* C13: the seed map searched in a default configuration without a
\* random_state key at any depth is empty; in one whose only random_state key
\* is at depth 2 it is exactly the path to that key, without the sibling
\* branches, holding the random_state argument of the constructor and not the
\* value of the configuration; in general its leaves are the random_state
\* keys of the configuration.
C13_LocatedSeeds ==
    LET kp == KeyPaths(factory_config, "random_state", <<>>)
    IN  /\ kp = {} => random_state_keys = EmptyDict
        /\ \A p \in kp :
              (kp = {p} /\ Len(p) = 2) =>
                  random_state_keys
                      = (p[1] :> DictNode(p[2] :> IntNode(DefaultRandomState)))
        /\ SeedLeaves(random_state_keys, <<>>) = {<<p, DefaultRandomState>> : p \in kp}
        /\ \A k \in 1..Len(factory_calls) :
              \A p \in kp :
                  ValueAt(factory_calls[k].params, p) = DefaultRandomState + k - 1
C13_Witness ==
    /\ factory_config = CfgDepth2
    /\ random_state_keys
          = ("reader_params" :> DictNode("random_state" :> IntNode(DefaultRandomState)))
    /\ kwargs = KwReader
    /\ Len(factory_calls) = 2
    /\ ValueAt(factory_calls[2].params, <<"reader_params", "random_state">>) = 43

\* C14: no step of fit_predict changes self.random_state_keys or self.kwargs;
\* every run therefore receives the seeds of the base map plus its offset,
\* every caller-supplied entry that no override key shadows, and, under a
\* colliding key, the caller's entries of that dict which the override does
\* not set.
C14_Inv ==
    \A k \in 1..Len(factory_calls) :
        LET params == factory_calls[k].params
        IN  /\ \A leaf \in SeedLeaves(random_state_keys, <<>>) :
                  ValueAt(params, leaf[1]) = leaf[2] + (k - 1)
            /\ \A key \in (DOMAIN kwargs) \ (DOMAIN random_state_keys) :
                  params[key] = kwargs[key]
            /\ \A key \in (DOMAIN kwargs) \cap (DOMAIN random_state_keys) :
                  \A sub \in (DOMAIN kwargs[key].dict) \ (DOMAIN random_state_keys[key].dict) :
                      params[key].dict[sub] = kwargs[key].dict[sub]
C14_Step ==
    /\ random_state_keys' = random_state_keys
    /\ kwargs' = kwargs
C14_InputsNotMutated == [](C14_Inv) /\ [][C14_Step]_vars
\* the third run of a call whose kwargs collide with the seed map
C14_Witness ==
    /\ random_state_keys = DocSeedMap /\ kwargs = KwGbm
    /\ Len(factory_calls) = 3 /\ Len(history) = 3
    /\ factory_calls[3].params["gbm_params"].dict["freeze"] = IntNode(1)
    /\ factory_calls[1].params["gbm_params"].dict["freeze"] = IntNode(1)

\* C15: a predict call leaves the fit state and every local of fit_predict
\* as they are and invokes no fit_predict of a blend strategy; for each
\* retained outer wrapper it asks every raw artifact of the wrapper once, in
\* stored order, for a prediction, gives exactly those predictions to the
\* predict of the wrapper's own stored blender, and gives the combined
\* predictions, one per wrapper, to the predict of the outer blender.
C15_Step ==
    (predict_calls' # predict_calls) =>
        LET call == predict_calls'[Len(predict_calls')]
        IN  /\ predict_calls' = Append(predict_calls, call)
            /\ fitstate' = fitstate
            /\ outer_pipes_set
            /\ inner_calls' = inner_calls /\ outer_calls' = outer_calls
            /\ factory_calls' = factory_calls
            /\ pc' = pc /\ locals' = locals /\ ctor' = ctor
            /\ Len(call.automl_preds) = Len(outer_pipes)
            /\ Len(call.outer_preds) = Len(outer_pipes)
            /\ \A i \in 1..Len(outer_pipes) :
                  LET automls == Unwrap(outer_pipes[i])
                  IN  /\ Len(call.automl_preds[i]) = Len(automls)
                      /\ \A j \in 1..Len(automls) :
                            call.automl_preds[i][j] =
                                [kind |-> "automl", gen |-> automls[j].gen, data |-> "test"]
                      /\ call.outer_preds[i].by = outer_pipes[i].blender.name
                      /\ call.outer_preds[i].of = call.automl_preds[i]
            /\ call.pred.by = outer_blend.name
            /\ call.pred.of = call.outer_preds
C15_PredictReadsOnly == [][C15_Step]_vars
\* two predict calls on a tree whose retained wrapper holds two artifacts
C15_Witness ==
    /\ Len(predict_calls) = 2 /\ predict_calls[1] = predict_calls[2]
    /\ pc = "done" /\ Len(outer_pipes) = 1
    /\ Len(Unwrap(outer_pipes[1])) = 2
    /\ outer_blend.fitted_on = 2
    /\ Len(predict_calls[2].automl_preds[1]) = 2

\* the configurations whose run was recorded in the current call
RecordedConfigs == {factory_calls[k].config_path : k \in 1..Len(history)}

\* C16: when the drop of the last run fires, every configuration has a run
\* of the first pass and the group it pops from holds at least two; after the
\* drop and the pruning every configuration that recorded a run has a run
\* left, no group is empty, and neither an inner nor the outer blend is ever
\* given empty input.
C16_Inv ==
    /\ (pc = "drop" /\ drop_last /\ n_ms > 1) =>
          /\ Len(configs_list) >= 1
          /\ \A i \in 1..Len(configs_list) : Len(amls[i]) >= 1
          /\ Len(history) >= Len(configs_list) + 1
          /\ Len(amls[n_cfg + 1]) >= 2
          /\ Len(amls[n_cfg + 1]) = n_ms
    /\ AfterDrop =>
          /\ ConfigsOf(amls) = RecordedConfigs
          /\ Len(amls) = Cardinality(RecordedConfigs)
          /\ Len(amls) >= 1
          /\ \A g \in 1..Len(amls) : Len(amls[g]) >= 1 /\ Len(aml_preds[g]) >= 1
    /\ \A c \in 1..Len(inner_calls) : Len(inner_calls[c].pipes) >= 1
    /\ \A c \in 1..Len(outer_calls) :
          Len(outer_calls[c].pipes) >= 1 /\ Len(outer_calls[c].preds) >= 1
    /\ pc = "failed" => (inner_calls = <<>> /\ outer_calls = <<>>)
C16_Step ==
    (pc = "drop" /\ pc' # "drop") => pc' = "inner"
C16_DropNeverEmpties == [](C16_Inv) /\ [][C16_Step]_vars
\* three configurations, stopped at the first run of the second pass, whose
\* group keeps its first run
C16_Witness ==
    /\ pc = "inner" /\ inner_pipes = <<>> /\ drop_last /\ n_ms = 2
    /\ Len(configs_list) = 3 /\ n_cfg = 0 /\ Len(history) = 4
    /\ Len(amls) = 3 /\ Len(amls[1]) = 1
    /\ GensOf(amls) = {0, 1, 2}

Max(a, b) == IF a >= b THEN a ELSE b
RunCap == Max(1, max_runs_per_config * Len(configs_list))

\* C17: with a non-empty configs_list no call starts more than
\* max(1, max_runs_per_config * n) runs and the loop has stopped when that
\* many are recorded; until the drop step the run of offset g belongs to
\* configuration g mod n and is the (g div n + 1)-th of its group, so an
\* earlier configuration has as many runs as a later one or one more, and no
\* configuration has more than max(1, max_runs_per_config).
C17_RoundRobinBounded ==
    (Len(configs_list) >= 1) =>
        /\ Len(factory_calls) <= RunCap
        /\ Len(history) <= RunCap
        /\ (InScheduler /\ Len(history) = RunCap) => pc = "drop"
        /\ (InScheduler /\ pc # "drop") => Len(history) < RunCap
        /\ InScheduler =>
              /\ Len(amls) = Len(configs_list)
              /\ TotalRuns(amls) = Len(history)
              /\ \A i \in 1..Len(amls) :
                    /\ Len(amls[i]) <= Max(1, max_runs_per_config)
                    /\ \A j \in 1..Len(amls[i]) :
                          /\ Unwrap(amls[i][j]).gen = (j - 1) * Len(configs_list) + (i - 1)
                          /\ Unwrap(amls[i][j]).config_path = configs_list[i]
                    /\ \A i2 \in 1..Len(amls) :
                          i < i2 => (Len(amls[i]) - Len(amls[i2])) \in {0, 1}
C17_Witness ==
    /\ pc = "drop" /\ Len(configs_list) = 3 /\ max_runs_per_config = 2
    /\ Len(history) = 5
    /\ Len(amls[1]) = 2 /\ Len(amls[2]) = 2 /\ Len(amls[3]) = 1

\* C18: the duration recorded for a run is the time elapsed since the
\* previous record, so after every record the durations add up to the time
\* spent since the timer was started; the time half of the stop test is
\* therefore time_left < time_spent / len(history), over the runs of all
\* configurations together.
C18_Inv ==
    InScheduler =>
        /\ Sum(history) = time_spent
        /\ \A k \in 1..Len(history) : history[k] \in Durations
C18_Step ==
    (Len(history') = Len(history) + 1) =>
        LET k == Len(history')
        IN  /\ SubSeq(history', 1, Len(history)) = history
            /\ history'[k] = time_spent' - time_spent
            /\ Sum(history') = time_spent'
            /\ flg_continute' =
                  ~(\/ (timeout - time_spent') * k < time_spent'
                    \/ upd_state_val' >= max_runs_per_config * Len(configs_list))
C18_HistorySumsToElapsed == [](C18_Inv) /\ [][C18_Step]_vars
\* two configurations: the second one's runs all took 10 and 10 is left, yet
\* the time test holds because the first one's slow run lifted the mean to 15
C18_Witness ==
    /\ pc = "drop" /\ timeout = 100 /\ Len(configs_list) = 2
    /\ history = <<40, 10, 10, 10, 10, 10>>
    /\ time_spent = 90
    /\ TimeFiredAt(6)
    /\ n_cfg = 1

====
